---------------------------- MODULE Spec2Model ----------------------------
(***************************************************************************)
(* Model of the inventory request pipeline of src/src/main.rs:             *)
(* process_inventory_requests = process_lines + process_inventories +      *)
(* log_inventories (process_stacks, process_entries).                      *)
(*                                                                         *)
(* Item, ItemStack, Inventory and ParsedLine live in the rust_inventory    *)
(* library crate; their behaviour (new, add_items, size) is modelled from  *)
(* spec.md sections 3 and 4.4.                                             *)
(***************************************************************************)
EXTENDS Integers, Sequences, FiniteSets, TLC

(***************************************************************************)
(* Bounds of the model.                                                    *)
(***************************************************************************)
\* longest input line sequence
MaxLines == 3
\* largest capacity carried by a marker
MaxCap == 2
\* largest quantity carried by a stack request
MaxQty == 2

(***************************************************************************)
(* Input domains.                                                          *)
(***************************************************************************)
\* identifiers a stack request may name
RequestIds == {1, 2}

\* ParsedLine::InventoryLine { max_size }
InventoryLine(max_size) == [type |-> "InventoryLine", max_size |-> max_size]

\* ParsedLine::ItemStackLine { id, quantity }
ItemStackLine(id, quantity) ==
    [type |-> "ItemStackLine", id |-> id, quantity |-> quantity]

\* any other record kind of the classified line stream (spec.md section 3)
OtherLine == [type |-> "Other"]

\* every value of ParsedLine within the bounds
ParsedLine ==
    {InventoryLine(c) : c \in 0..MaxCap}
        \cup {ItemStackLine(i, q) : i \in RequestIds, q \in 1..MaxQty}
        \cup {OtherLine}

\* Item { id, name }
Item(id, name) == [id |-> id, name |-> name]

\* the catalogs explored: unique identifiers, a duplicated identifier (in both
\* orders), a catalog that does not know identifier 1, and the empty catalog
Catalogs ==
    { <<Item(1, "Torch"), Item(2, "Rope")>>,
      <<Item(1, "Torch"), Item(1, "Rope")>>,
      <<Item(2, "Rope"), Item(1, "Torch"), Item(2, "Torch")>>,
      <<Item(2, "Rope")>>,
      <<>> }

\* all sequences over S of length at most n
SeqUpTo(S, n) == UNION {[1..m -> S] : m \in 0..n}

VARIABLES
    all_inventory_lines,  \* argument of process_inventory_requests
    known_items,          \* argument of process_inventory_requests
    pc,                   \* position in process_inventory_requests
    lines,                \* the Split iterator of process_lines, as its items
    inventories,          \* result of process_inventories
    idx,                  \* pairs already taken from the zip in log_inventories
    stacks_to_store,      \* result of process_stacks for the current pair
    k,                    \* stacks already consumed by the map of process_entries
    inv,                  \* the inventory of the current pair (mut inv)
    entries,              \* log entries produced so far for the current pair
    logged_inventories    \* collected (entries, inv) pairs

vars == <<all_inventory_lines, known_items, pc, lines, inventories, idx,
          stacks_to_store, k, inv, entries, logged_inventories>>

(***************************************************************************)
(* Library types (rust_inventory), modelled from spec.md.                  *)
(***************************************************************************)
\* ItemStack::new(item, quantity)
ItemStackNew(item, quantity) == [item |-> item, quantity |-> quantity]

\* ItemStack::size(): the capacity units a stack takes
size(stack) == stack.quantity

\* Inventory::new(max_size): empty, capacity fixed
InventoryNew(max_size) == [max_size |-> max_size, occupied |-> 0, slots |-> <<>>]

\* the decision of Inventory::add_items
Fits(inventory, stack) == inventory.occupied + size(stack) <= inventory.max_size

\* the inventory after Inventory::add_items(stack)
AddItems(inventory, stack) ==
    IF Fits(inventory, stack)
    THEN [inventory EXCEPT !.occupied = @ + size(stack),
                           !.slots = Append(@, stack)]
    ELSE inventory

(***************************************************************************)
(* process_lines: slice::split on the marker lines.                        *)
(***************************************************************************)
IsInventoryLine(line) == line.type = "InventoryLine"

RECURSIVE SplitFrom(_, _, _, _)
\* s: the slice, i: next index, cur: the open sub-slice, acc: closed sub-slices
SplitFrom(s, i, cur, acc) ==
    IF i > Len(s) THEN Append(acc, cur)
    ELSE IF IsInventoryLine(s[i]) THEN SplitFrom(s, i + 1, <<>>, Append(acc, cur))
    ELSE SplitFrom(s, i + 1, Append(cur, s[i]), acc)

\* variant: empty sub-slices are not yielded
process_lines_nonempty(ls) ==
    SelectSeq(SplitFrom(ls, 1, <<>>, <<>>), LAMBDA seg : seg # <<>>)

process_lines(ls) == SplitFrom(ls, 1, <<>>, <<>>)

(***************************************************************************)
(* process_inventories: filter_map over the lines.                         *)
(***************************************************************************)
RECURSIVE process_inventories_wider(_)
\* variant: every inventory is built one unit larger than its marker declares
process_inventories_wider(ls) ==
    IF ls = <<>> THEN <<>>
    ELSE IF Head(ls).type = "InventoryLine"
         THEN <<InventoryNew(Head(ls).max_size + 1)>>
                  \o process_inventories_wider(Tail(ls))
         ELSE process_inventories_wider(Tail(ls))

RECURSIVE process_inventories(_)
process_inventories(ls) ==
    IF ls = <<>> THEN <<>>
    ELSE IF Head(ls).type = "InventoryLine"
         THEN <<InventoryNew(Head(ls).max_size)>> \o process_inventories(Tail(ls))
         ELSE process_inventories(Tail(ls))

(***************************************************************************)
(* process_stacks: filter_map with find over the known items.              *)
(***************************************************************************)
RECURSIVE FindFrom(_, _, _)
\* index of the first item at or after i whose id is id, 0 when there is none
FindFrom(items, id, i) ==
    IF i > Len(items) THEN 0
    ELSE IF items[i].id = id THEN i
    ELSE FindFrom(items, id, i + 1)

RECURSIVE FindLastFrom(_, _, _)
FindLastFrom(items, id, i) ==
    IF i < 1 THEN 0
    ELSE IF items[i].id = id THEN i
    ELSE FindLastFrom(items, id, i - 1)

\* variant: the last matching item instead of the first
FindLast(items, id) == FindLastFrom(items, id, Len(items))

Find(items, id) == FindFrom(items, id, 1)

RECURSIVE StacksOfAll(_, _, _)
\* one stack per item at or after i whose id is that of line
StacksOfAll(items, line, i) ==
    IF i > Len(items) THEN <<>>
    ELSE IF items[i].id = line.id
         THEN <<ItemStackNew(items[i], line.quantity)>>
                  \o StacksOfAll(items, line, i + 1)
         ELSE StacksOfAll(items, line, i + 1)

RECURSIVE process_stacks_flat(_, _)
\* variant: flat_map over every matching item instead of find
process_stacks_flat(items, es) ==
    IF es = <<>> THEN <<>>
    ELSE IF Head(es).type = "ItemStackLine"
         THEN StacksOfAll(items, Head(es), 1) \o process_stacks_flat(items, Tail(es))
         ELSE process_stacks_flat(items, Tail(es))

RECURSIVE process_stacks_rev(_, _)
\* variant: the resolved stacks are collected in reverse order
process_stacks_rev(items, es) ==
    IF es = <<>> THEN <<>>
    ELSE LET line == Head(es)
             rest == process_stacks_rev(items, Tail(es))
         IN  IF line.type = "ItemStackLine" /\ FindFrom(items, line.id, 1) # 0
             THEN rest \o <<ItemStackNew(items[FindFrom(items, line.id, 1)],
                                         line.quantity)>>
             ELSE rest

RECURSIVE process_stacks(_, _)
process_stacks(items, es) ==
    IF es = <<>> THEN <<>>
    ELSE LET line == Head(es)
             rest == process_stacks(items, Tail(es))
         IN  IF line.type = "ItemStackLine"
             THEN IF Find(items, line.id) # 0
                  THEN <<ItemStackNew(items[Find(items, line.id)], line.quantity)>>
                           \o rest
                  ELSE rest
             ELSE rest

(***************************************************************************)
(* process_entries: one formatted entry per stack.                         *)
(***************************************************************************)
RECURSIVE PadRight(_, _)
\* {:w}: left-aligned, filled with spaces up to width w
PadRight(s, w) == IF Len(s) >= w THEN s ELSE PadRight(s \o " ", w)

RECURSIVE PadLeft(_, _)
\* {:>w}: right-aligned, filled with spaces up to width w
PadLeft(s, w) == IF Len(s) >= w THEN s ELSE PadLeft(" " \o s, w)

\* variant: the two labels are exchanged
LabelSwapped(stored) == IF stored THEN "Discarded" ELSE "Stored"

\* the label chosen from the result of add_items
Label(stored) == IF stored THEN "Stored" ELSE "Discarded"

\* format!("{:9} ({:>2}) {}", label, size, name)
Format(label, sz, name) ==
    PadRight(label, 9) \o " (" \o PadLeft(ToString(sz), 2) \o ") " \o name

\* variant: the result of add_items is ignored, every entry says Stored
EntryAlwaysStored(inventory, stack) ==
    PadRight("Stored", 9) \o " (" \o PadLeft(ToString(size(stack)), 2) \o ") "
        \o stack.item.name

\* the entry the closure of process_entries produces for stack against inventory
Entry(inventory, stack) ==
    Format(Label(Fits(inventory, stack)), size(stack), stack.item.name)

(***************************************************************************)
(* The state machine.                                                      *)
(***************************************************************************)
Init ==
    /\ all_inventory_lines \in SeqUpTo(ParsedLine, MaxLines)
    /\ known_items \in Catalogs
    /\ pc = "process_lines"
    /\ lines = <<>>
    /\ inventories = <<>>
    /\ idx = 0
    /\ stacks_to_store = <<>>
    /\ k = 0
    /\ inv = InventoryNew(0)
    /\ entries = <<>>
    /\ logged_inventories = <<>>

\* let lines = process_lines(&all_inventory_lines);
ProcessLines ==
    /\ pc = "process_lines"
    /\ lines' = process_lines(all_inventory_lines)
    /\ pc' = "process_inventories"
    /\ UNCHANGED <<all_inventory_lines, known_items, inventories, idx,
                   stacks_to_store, k, inv, entries, logged_inventories>>

\* let inventories = process_inventories(&all_inventory_lines);
ProcessInventories ==
    /\ pc = "process_inventories"
    /\ inventories' = process_inventories(all_inventory_lines)
    /\ pc' = "log_inventories"
    /\ UNCHANGED <<all_inventory_lines, known_items, lines, idx,
                   stacks_to_store, k, inv, entries, logged_inventories>>

\* variant: nothing is skipped
SkipNone(s, n) == s

\* Iterator::skip(n): the items after the first n
Skip(s, n) == SubSeq(s, n + 1, Len(s))

\* the zip of inventories with lines.skip(1) still has a pair
ZipHasNext == idx + 1 <= Len(inventories) /\ idx + 1 <= Len(Skip(lines, 1))

\* the zip yields (inv, entries); process_stacks resolves the entries
TakePair ==
    /\ pc = "log_inventories"
    /\ ZipHasNext
    /\ inv' = inventories[idx + 1]
    /\ stacks_to_store' = process_stacks(known_items, Skip(lines, 1)[idx + 1])
    /\ k' = 0
    /\ entries' = <<>>
    /\ pc' = "process_entries"
    /\ UNCHANGED <<all_inventory_lines, known_items, lines, inventories, idx,
                   logged_inventories>>

\* variant: a stack that did not fit stays at the head of the iterator and is
\* offered again
ProcessEntryRetry ==
    /\ pc = "process_entries"
    /\ k < Len(stacks_to_store)
    /\ Len(entries) <= Len(stacks_to_store)
    /\ LET stack == stacks_to_store[k + 1]
       IN  /\ entries' = Append(entries, Entry(inv, stack))
           /\ inv' = AddItems(inv, stack)
           /\ k' = IF Fits(inv, stack) THEN k + 1 ELSE k
    /\ UNCHANGED <<all_inventory_lines, known_items, pc, lines, inventories,
                   idx, stacks_to_store, logged_inventories>>

\* one iteration of the map in process_entries: add_items, then format
ProcessEntry ==
    /\ pc = "process_entries"
    /\ k < Len(stacks_to_store)
    /\ LET stack == stacks_to_store[k + 1]
       IN  /\ entries' = Append(entries, Entry(inv, stack))
           /\ inv' = AddItems(inv, stack)
    /\ k' = k + 1
    /\ UNCHANGED <<all_inventory_lines, known_items, pc, lines, inventories,
                   idx, stacks_to_store, logged_inventories>>

\* the map is exhausted: the closure of log_inventories returns (entries, inv)
CollectPair ==
    /\ pc = "process_entries"
    /\ k = Len(stacks_to_store)
    /\ logged_inventories' = Append(logged_inventories, <<entries, inv>>)
    /\ idx' = idx + 1
    /\ pc' = "log_inventories"
    /\ UNCHANGED <<all_inventory_lines, known_items, lines, inventories,
                   stacks_to_store, k, inv, entries>>

\* the zip is exhausted: log_inventories returns logged_inventories
Return ==
    /\ pc = "log_inventories"
    /\ ~ZipHasNext
    /\ pc' = "done"
    /\ UNCHANGED <<all_inventory_lines, known_items, lines, inventories, idx,
                   stacks_to_store, k, inv, entries, logged_inventories>>

Next ==
    \/ ProcessLines
    \/ ProcessInventories
    \/ TakePair
    \/ ProcessEntry
    \/ CollectPair
    \/ Return

Spec == Init /\ [][Next]_vars

(***************************************************************************)
(* Reference notions used by the properties: markers, the segment of a     *)
(* marker, resolvable records, and what a log entry says.                  *)
(***************************************************************************)
\* positions of the marker records of ls
MarkerPositions(ls) == {p \in DOMAIN ls : ls[p].type = "InventoryLine"}

NumMarkers(ls) == Cardinality(MarkerPositions(ls))

\* position of the i-th marker of ls
NthMarker(ls, i) ==
    CHOOSE p \in MarkerPositions(ls) :
        Cardinality({q \in MarkerPositions(ls) : q < p}) = i - 1

\* capacity declared by the i-th marker
DeclaredCapacity(ls, i) == ls[NthMarker(ls, i)].max_size

\* the records strictly between the i-th marker and the next one (or the end)
SegmentOf(ls, i) ==
    LET last == IF i < NumMarkers(ls) THEN NthMarker(ls, i + 1) - 1 ELSE Len(ls)
    IN  SubSeq(ls, NthMarker(ls, i) + 1, last)

\* line is a stack request whose id some catalog item carries
Resolvable(items, line) ==
    /\ line.type = "ItemStackLine"
    /\ \E j \in DOMAIN items : items[j].id = line.id

ResolvableLines(items, seg) == SelectSeq(seg, LAMBDA l : Resolvable(items, l))

\* the catalog item of lowest index carrying id
FirstMatch(items, id) ==
    items[CHOOSE j \in DOMAIN items :
              /\ items[j].id = id
              /\ \A h \in 1..(j - 1) : items[h].id # id]

\* the stacks the resolvable records of seg stand for, in input order
ExpectedStacks(items, seg) ==
    LET R == ResolvableLines(items, seg)
    IN  [j \in 1..Len(R) |->
            [item |-> FirstMatch(items, R[j].id), quantity |-> R[j].quantity]]

\* entry e reports stack as stored / as discarded
SaysStored(e, stack) == e = Format("Stored", size(stack), stack.item.name)
SaysDiscarded(e, stack) == e = Format("Discarded", size(stack), stack.item.name)

RECURSIVE StoredSum(_, _, _)
\* sum of the sizes of the stacks among the first n that are logged as Stored
StoredSum(ents, stacks, n) ==
    IF n = 0 THEN 0
    ELSE StoredSum(ents, stacks, n - 1)
             + (IF SaysStored(ents[n], stacks[n]) THEN size(stacks[n]) ELSE 0)

RECURSIVE StoredStacks(_, _, _)
\* the stacks among the first n that are logged as Stored, in order
StoredStacks(ents, stacks, n) ==
    IF n = 0 THEN <<>>
    ELSE StoredStacks(ents, stacks, n - 1)
             \o (IF SaysStored(ents[n], stacks[n]) THEN <<stacks[n]>> ELSE <<>>)

RECURSIVE SumSizes(_)
SumSizes(stacks) ==
    IF stacks = <<>> THEN 0 ELSE size(Head(stacks)) + SumSizes(Tail(stacks))

RECURSIVE SumQuantities(_)
SumQuantities(ls) ==
    IF ls = <<>> THEN 0 ELSE Head(ls).quantity + SumQuantities(Tail(ls))

RECURSIVE Replay(_, _, _)
\* log and inventory after deciding the first n of stacks, in order, against an
\* empty inventory of capacity cap, by the rule occupied + incoming <= capacity
Replay(stacks, n, cap) ==
    IF n = 0 THEN <<<<>>, [max_size |-> cap, occupied |-> 0, slots |-> <<>>]>>
    ELSE LET prev == Replay(stacks, n - 1, cap)
             st == stacks[n]
             ok == prev[2].occupied + st.quantity <= cap
         IN  << Append(prev[1],
                       Format(IF ok THEN "Stored" ELSE "Discarded",
                              st.quantity, st.item.name)),
                IF ok
                THEN [max_size |-> cap,
                      occupied |-> prev[2].occupied + st.quantity,
                      slots |-> Append(prev[2].slots, st)]
                ELSE prev[2] >>

\* the current pair is being processed (or has just been collected)
InPair == pc = "process_entries"

(***************************************************************************)
(* C1: for every inventory, after any prefix of decisions, the sum of the  *)
(* sizes of the stacks logged as Stored is the inventory's occupancy and   *)
(* does not exceed the capacity declared by its marker, and the capacity   *)
(* of the inventory stays the declared one.                                *)
(***************************************************************************)
C1_CapacityNeverExceeded ==
    /\ InPair =>
          /\ inv.max_size = DeclaredCapacity(all_inventory_lines, idx + 1)
          /\ StoredSum(entries, stacks_to_store, Len(entries)) = inv.occupied
          /\ StoredSum(entries, stacks_to_store, Len(entries))
                 <= DeclaredCapacity(all_inventory_lines, idx + 1)
    /\ \A i \in DOMAIN logged_inventories :
          /\ logged_inventories[i][2].max_size
                 = DeclaredCapacity(all_inventory_lines, i)
          /\ logged_inventories[i][2].occupied
                 <= DeclaredCapacity(all_inventory_lines, i)

\* an inventory filled exactly to its capacity that has also rejected a stack
C1_Witness ==
    /\ InPair
    /\ inv.max_size > 0
    /\ inv.occupied = inv.max_size
    /\ \E j \in DOMAIN entries : SaysDiscarded(entries[j], stacks_to_store[j])

(***************************************************************************)
(* C2: the number of (log, inventory) pairs returned equals the number of  *)
(* marker records of the input; with no marker the output is empty.        *)
(***************************************************************************)
C2_OutputCount ==
    /\ Len(logged_inventories) <= NumMarkers(all_inventory_lines)
    /\ pc = "done" =>
          Len(logged_inventories) = NumMarkers(all_inventory_lines)

\* a finished run over two adjacent markers followed by a stack request
C2_Witness ==
    /\ pc = "done"
    /\ NumMarkers(all_inventory_lines) = 2
    /\ Len(all_inventory_lines) = 3
    /\ all_inventory_lines[3].type = "ItemStackLine"
    /\ Len(logged_inventories) = 2

(***************************************************************************)
(* C3: the i-th output pair is the inventory of the i-th marker's capacity *)
(* driven only by the records strictly between the i-th marker and the     *)
(* next; the preamble contributes to no inventory, and of two adjacent     *)
(* markers the earlier has an empty segment.                               *)
(***************************************************************************)
C3_PairMatchesSegment ==
    /\ \A i \in DOMAIN logged_inventories :
          LET stacks == ExpectedStacks(known_items,
                                       SegmentOf(all_inventory_lines, i))
          IN  logged_inventories[i]
                  = Replay(stacks, Len(stacks),
                           DeclaredCapacity(all_inventory_lines, i))
    /\ InPair =>
          LET stacks == ExpectedStacks(known_items,
                                       SegmentOf(all_inventory_lines, idx + 1))
          IN  <<entries, inv>>
                  = Replay(stacks, k, DeclaredCapacity(all_inventory_lines, idx + 1))

\* a finished run whose preamble holds a resolvable request that would fit, and
\* whose first inventory stored a request of its own segment
C3_Witness ==
    /\ pc = "done"
    /\ Len(logged_inventories) = 1
    /\ Resolvable(known_items, all_inventory_lines[1])
    /\ all_inventory_lines[1].quantity
           + logged_inventories[1][2].occupied
           <= logged_inventories[1][2].max_size
    /\ Len(logged_inventories[1][2].slots) = 1

(***************************************************************************)
(* C4: each log entry, in order, says Stored exactly when occupied +       *)
(* incoming <= capacity at the moment of its decision (occupied being the  *)
(* sum of the sizes previously stored), and says Discarded otherwise.      *)
(***************************************************************************)
C4_LabelMatchesDecision ==
    \A j \in DOMAIN entries :
        LET st == stacks_to_store[j]
            occupied == StoredSum(entries, stacks_to_store, j - 1)
            fits == occupied + size(st) <= inv.max_size
        IN  /\ SaysStored(entries[j], st) <=> fits
            /\ SaysDiscarded(entries[j], st) <=> ~fits

\* a stack small enough for the empty inventory is discarded because of what
\* was stored before it
C4_Witness ==
    /\ InPair
    /\ \E j \in DOMAIN entries :
          /\ j > 1
          /\ SaysStored(entries[j - 1], stacks_to_store[j - 1])
          /\ SaysDiscarded(entries[j], stacks_to_store[j])
          /\ size(stacks_to_store[j]) <= inv.max_size

(***************************************************************************)
(* C5: every decision is atomic: an entry saying Discarded leaves the      *)
(* inventory exactly as it was, an entry saying Stored adds the whole      *)
(* stack, and the occupancy is always a sum of whole stored stacks.        *)
(***************************************************************************)
C5_AtomicDecision ==
    /\ [](inv.occupied = SumSizes(inv.slots))
    /\ [][(InPair /\ entries' # entries) =>
             LET st == stacks_to_store[k + 1]
                 e == entries'[Len(entries')]
             IN  /\ entries' = Append(entries, e)
                 /\ SaysStored(e, st) \/ SaysDiscarded(e, st)
                 /\ SaysDiscarded(e, st) => inv' = inv
                 /\ SaysStored(e, st) =>
                       /\ inv'.occupied = inv.occupied + size(st)
                       /\ inv'.slots = Append(inv.slots, st)
                       /\ inv'.max_size = inv.max_size]_vars

\* a non-empty inventory has just rejected a stack
C5_Witness ==
    /\ InPair
    /\ k >= 2
    /\ inv.occupied > 0
    /\ SaysDiscarded(entries[k], stacks_to_store[k])

(***************************************************************************)
(* C6: the number of log entries of an inventory is the number of stack    *)
(* requests of its segment whose id is in the catalog; other records       *)
(* produce no entry and no occupancy.                                      *)
(***************************************************************************)
C6_EntriesCountResolvable ==
    /\ \A i \in DOMAIN logged_inventories :
          LET R == ResolvableLines(known_items, SegmentOf(all_inventory_lines, i))
          IN  /\ Len(logged_inventories[i][1]) = Len(R)
              /\ logged_inventories[i][2].occupied <= SumQuantities(R)
    /\ InPair =>
          LET R == ResolvableLines(known_items,
                                   SegmentOf(all_inventory_lines, idx + 1))
          IN  /\ Len(stacks_to_store) = Len(R)
              /\ Len(entries) = k
              /\ k <= Len(R)
              /\ inv.occupied <= SumQuantities(R)

\* a collected inventory whose segment holds an unresolvable request that would
\* have fitted, and a resolvable one
C6_Witness ==
    /\ Len(logged_inventories) = 1
    /\ LET seg == SegmentOf(all_inventory_lines, 1)
       IN  /\ Len(seg) = 2
           /\ seg[1].type = "ItemStackLine"
           /\ ~Resolvable(known_items, seg[1])
           /\ Resolvable(known_items, seg[2])
           /\ known_items # <<>>
           /\ seg[1].quantity + seg[2].quantity
                  <= logged_inventories[1][2].max_size
           /\ Len(logged_inventories[1][1]) = 1
           /\ logged_inventories[1][2].occupied = seg[2].quantity

(***************************************************************************)
(* C7: the k-th log entry of an inventory describes the k-th resolvable    *)
(* stack request of its segment in input order (same name and size), and   *)
(* the output pairs are in marker order.                                   *)
(***************************************************************************)
C7_OrderPreserved ==
    \A i \in DOMAIN logged_inventories :
        LET log == logged_inventories[i][1]
            stacks == ExpectedStacks(known_items, SegmentOf(all_inventory_lines, i))
        IN  /\ logged_inventories[i][2].max_size
                   = DeclaredCapacity(all_inventory_lines, i)
            /\ \A j \in DOMAIN log :
                  /\ j \in DOMAIN stacks
                  /\ SaysStored(log[j], stacks[j]) \/ SaysDiscarded(log[j], stacks[j])

\* a collected log of two entries about different items and sizes
C7_Witness ==
    /\ Len(logged_inventories) = 1
    /\ LET stacks == ExpectedStacks(known_items, SegmentOf(all_inventory_lines, 1))
       IN  /\ Len(stacks) = 2
           /\ stacks[1].item.name # stacks[2].item.name
           /\ stacks[1].quantity # stacks[2].quantity
           /\ Len(logged_inventories[1][1]) = 2

(***************************************************************************)
(* C9: every resolved stack is offered exactly once and in order: each     *)
(* step of process_entries decides the next stack and appends its entry,   *)
(* earlier entries and collected pairs never change, the pair is collected *)
(* only when every stack was offered, and the stored stacks are exactly    *)
(* those whose entry says Stored, so a discarded stack stays absent even   *)
(* when a later, smaller one is stored.                                    *)
(***************************************************************************)
C9_NoRetry ==
    /\ [](Len(entries) = k
            /\ inv.slots = StoredStacks(entries, stacks_to_store, Len(entries)))
    /\ [][(InPair /\ pc' = "process_entries") =>
             /\ k' = k + 1
             /\ stacks_to_store' = stacks_to_store
             /\ entries' = Append(entries, entries'[k + 1])
             /\ \/ SaysStored(entries'[k + 1], stacks_to_store[k + 1])
                \/ SaysDiscarded(entries'[k + 1], stacks_to_store[k + 1])]_vars
    /\ [][(InPair /\ pc' # "process_entries") =>
             /\ k = Len(stacks_to_store)
             /\ logged_inventories' = Append(logged_inventories, <<entries, inv>>)]_vars
    /\ [][\A i \in DOMAIN logged_inventories :
             /\ i \in DOMAIN logged_inventories'
             /\ logged_inventories'[i] = logged_inventories[i]]_vars

\* a stack was discarded and a later, smaller stack of the same inventory stored
C9_Witness ==
    /\ InPair
    /\ k = Len(stacks_to_store)
    /\ \E i, j \in DOMAIN entries :
          /\ i < j
          /\ SaysDiscarded(entries[i], stacks_to_store[i])
          /\ SaysStored(entries[j], stacks_to_store[j])
          /\ size(stacks_to_store[j]) < size(stacks_to_store[i])

(***************************************************************************)
(* C10: a request whose id several catalog items share is resolved to the  *)
(* item of lowest catalog index, as exactly one stack and one log entry.   *)
(***************************************************************************)
C10_FirstMatchWins ==
    InPair =>
        LET R == ResolvableLines(known_items,
                                 SegmentOf(all_inventory_lines, idx + 1))
        IN  /\ Len(stacks_to_store) = Len(R)
            /\ \A j \in DOMAIN stacks_to_store :
                  /\ stacks_to_store[j].item = FirstMatch(known_items, R[j].id)
                  /\ stacks_to_store[j].quantity = R[j].quantity
            /\ k = Len(stacks_to_store) => Len(entries) = Len(R)

\* every stack of a segment decided, the first of them for an id that two
\* catalog items of different names share
C10_Witness ==
    /\ InPair
    /\ k = Len(stacks_to_store)
    /\ k >= 1
    /\ \E a, b \in DOMAIN known_items :
          /\ a < b
          /\ known_items[a].id = known_items[b].id
          /\ known_items[a].name # known_items[b].name
          /\ stacks_to_store[1].item = known_items[a]
          /\ entries[1] = Format("Stored", size(stacks_to_store[1]),
                                 known_items[a].name)

=============================================================================
